---- MODULE Spec2Model ----
(***************************************************************************)
(* Gateway reliability layer of the event-management backend:              *)
(*   - retryWithBackoff (api-gateway/src/common/utils/retry.util.ts)        *)
(*   - the api-gateway controllers that pipe timeout + retryWithBackoff     *)
(*   - IdempotencyService.checkAndStore of the events-service and the       *)
(*     events-service controller that wraps its operations with it.         *)
(*                                                                         *)
(*   - CorrelationIdInterceptor of the api-gateway and the timeout(T)      *)
(*     each controller puts in front of retryWithBackoff.                  *)
(*                                                                         *)
(* The specifications of the module:                                       *)
(*   SpecRetry    one subscription of source.pipe(retryWithBackoff(config))*)
(*   Spec         gateway requests on the keyed write routes, forwarded to *)
(*                the events-service, which runs checkAndStore.            *)
(*   SpecGateway  one inbound HTTP request of the api-gateway, from the    *)
(*                interceptor to the response, with a millisecond clock.   *)
(*   SpecEvents   EventsService of the events-service over its event       *)
(*                table, operations issued one after another.              *)
(*   SpecMonolith the same for the EventsService of the monolith-api,      *)
(*                which publishes a domain event after each transition.    *)
(*   SpecBus      EventBusService of the monolith-api on its own.          *)
(***************************************************************************)
EXTENDS Integers, Sequences, FiniteSets, TLC

VARIABLES
    \* ---- SpecRetry: one retryWithBackoff pipeline -----------------------
    route,        \* gateway route whose pipeline this is, or "custom"
    cfg,          \* the destructured RetryConfig of the pipeline
    rpc,          \* "init" | "running" | "backoff" | "done"
    errors,       \* the errors the source raised so far (retryWhen's stream)
    invocations,  \* subscriptions to the source made so far
    delays,       \* the timer(delay) values scheduled so far, in order
    result,       \* what the pipeline delivered to its subscriber
    \* ---- Spec: gateway + events-service idempotency ---------------------
    now,          \* Date.now() of the events-service process
    cache,        \* IdempotencyService.cache : key -> record
    req,          \* per inbound gateway request: gateway and handler state
    \* ---- SpecGateway: one inbound HTTP request -------------------------
    httpRequest,  \* route, x-correlation-id header, request.correlationId
    httpResponse, \* X-Correlation-ID header and body of the HTTP response
    payload,      \* the data object the handler passes to client.send
    attempts,     \* one record per subscription to send(...).pipe(timeout(T))
    clock,        \* milliseconds since the request arrived
    gpc,          \* "idle" | "interceptor" | "handler" | "attempt" | "backoff" | "done"
    timerDue,     \* clock value at which the pending timer(delay) fires
    \* ---- SpecEvents / SpecMonolith: EventsService ----------------------
    events,       \* prisma.event : id -> row, or NoEvent
    pending,      \* calls that passed their checks and await their write
    last,         \* the operation that finished last: arguments and outcome
    \* ---- SpecBus / SpecMonolith: EventBusService -----------------------
    handlers,     \* EventBusService.handlers : eventType -> list of handlers
    publishing,   \* monolith calls whose write is persisted, awaiting publish
    published,    \* domain events published since the last workflow write
    delivered     \* what the last publish did: handlers called, its result

retryVars == <<route, cfg, rpc, errors, invocations, delays, result>>
idemVars  == <<now, cache, req>>
gwVars    == <<httpRequest, httpResponse, payload, attempts, clock, gpc, timerDue>>
evVars    == <<events, pending, last>>
vars      == <<route, cfg, rpc, errors, invocations, delays, result, now, cache, req,
               httpRequest, httpResponse, payload, attempts, clock, gpc, timerDue,
               events, pending, last,
               handlers, publishing, published, delivered>>
busVars   == <<handlers, publishing, published, delivered>>
exceptRetry   == <<idemVars, gwVars, evVars, busVars>>
exceptIdem    == <<retryVars, gwVars, evVars, busVars>>
exceptGateway == <<retryVars, idemVars, evVars, busVars>>
exceptEvents  == <<retryVars, idemVars, gwVars, busVars>>
exceptBus     == <<retryVars, idemVars, gwVars, evVars>>

(***************************************************************************)
(* Bounds of the model                                                      *)
(***************************************************************************)
MaxAttemptsBound == 3      \* custom configs draw maxAttempts from 1..MaxAttemptsBound
NumReqs == 2               \* concurrent inbound gateway requests
MaxTicks == 3              \* clock advances at most MaxTicks half-windows
MaxDate == 2               \* event dates are drawn from 1..MaxDate
MaxHandlers == 2           \* handlers registered per event type in SpecBus
MaxInFlight == 2           \* moderation calls awaiting their write in SpecDecide

(***************************************************************************)
(* Failures.  A failure is what the retry classifier inspects: error.code  *)
(* and error.status (absent fields are "NONE" and 0).  rxjs' timeout()     *)
(* raises a TimeoutError, which carries neither a code nor a status.       *)
(***************************************************************************)
NoCode == "NONE"
NoStatus == 0

Err(n, c, s) == [name |-> n, code |-> c, status |-> s]

TimeoutError == Err("TimeoutError", NoCode, NoStatus)

ConnRefused == Err("Error", "ECONNREFUSED", NoStatus)

\* an exception thrown inside an events-service handler, as the gateway sees it
BackendError == Err("Error", NoCode, 400)

SourceErrors ==
    { ConnRefused,
      Err("Error", "EPIPE", NoStatus),
      Err("Error", "EPIPE", 503),
      Err("Error", NoCode, 503),
      Err("Error", NoCode, 504),
      BackendError }

NoResult == [kind |-> "none"]
Value(v) == [kind |-> "value", v |-> v]
Failure(e) == [kind |-> "error", error |-> e]

(***************************************************************************)
(* retryWithBackoff                                                         *)
(***************************************************************************)
DefaultMaxAttempts == 3
DefaultDelayMs == 1000
DefaultBackoffMultiplier == 2
DefaultRetryableErrors == {"ECONNREFUSED", "ETIMEDOUT", "ENOTFOUND"}

\* retryWithBackoff({ maxAttempts: n }): the other fields take their defaults
RetryConfig(n) ==
    [maxAttempts |-> n,
     delayMs |-> DefaultDelayMs,
     backoffMultiplier |-> DefaultBackoffMultiplier,
     retryableErrors |-> DefaultRetryableErrors]

RECURSIVE Pow(_, _)
Pow(b, e) == IF e = 0 THEN 1 ELSE b * Pow(b, e - 1)

\* faulty variant: only the configured codes are retryable
isRetryable_CodesOnly(c, error) ==
    \E code \in c.retryableErrors : error.code = code

isRetryable(c, error) ==
    \/ \E code \in c.retryableErrors : error.code = code
    \/ error.status = 503
    \/ error.status = 504

\* faulty variant: linear instead of exponential growth
BackoffDelay_Linear(c, index) == c.delayMs * c.backoffMultiplier * index

BackoffDelay(c, index) == c.delayMs * Pow(c.backoffMultiplier, index)

\* faulty variant: attempt > maxAttempts
RetryHandler_OffByOne(c, error, index) ==
    LET attempt == index + 1
    IN  IF attempt > c.maxAttempts \/ ~isRetryable(c, error)
        THEN [kind |-> "throw", error |-> error]
        ELSE [kind |-> "timer", delay |-> BackoffDelay(c, index)]

\* faulty variant: every failure is retried while attempts remain
RetryHandler_NoClassifier(c, error, index) ==
    LET attempt == index + 1
    IN  IF attempt >= c.maxAttempts
        THEN [kind |-> "throw", error |-> error]
        ELSE [kind |-> "timer", delay |-> BackoffDelay(c, index)]

\* the mergeMap callback: rethrow, or a timer after which retryWhen resubscribes
RetryHandler(c, error, index) ==
    LET attempt == index + 1
    IN  IF attempt >= c.maxAttempts \/ ~isRetryable(c, error)
        THEN [kind |-> "throw", error |-> error]
        ELSE [kind |-> "timer", delay |-> BackoffDelay(c, index)]

(***************************************************************************)
(* The api-gateway routes: .pipe(timeout(t), retryWithBackoff({maxAttempts}))*)
(***************************************************************************)
AuthRoutes == {"auth.signup", "auth.login", "auth.getMe"}
ReadRoutes == {"events.findAll", "events.findOne"}
WriteRoutes == {"events.create", "events.update", "events.delete",
                "events.submit", "events.approve", "events.reject"}
KeyedRoutes == {"events.create", "events.submit", "events.approve", "events.reject"}
GatewayRoutes == AuthRoutes \cup ReadRoutes \cup WriteRoutes

\* the keyed routes Spec draws requests from; approve and reject have the
\* same gateway pipeline and the same checkAndStore wrapper as these two
SpecRoutes == {"events.create", "events.submit"}

\* faulty variant: every route keeps the default of three attempts
RouteMaxAttempts_AllThree(rt) == 3

RouteMaxAttempts(rt) ==
    CASE rt \in {"auth.signup", "auth.login"} -> 2
      [] rt = "auth.getMe" -> 3
      [] rt \in ReadRoutes -> 3
      [] rt \in WriteRoutes -> 1

RouteTimeoutMs(rt) ==
    CASE rt \in AuthRoutes -> 5000
      [] rt = "events.findOne" -> 5000
      [] rt = "events.findAll" -> 10000
      [] rt \in WriteRoutes -> 10000

RouteConfig(rt) == RetryConfig(RouteMaxAttempts(rt))

\* configurations a direct user of retryWithBackoff may pass
CustomConfigs ==
    [maxAttempts : 1..MaxAttemptsBound,
     delayMs : {200, DefaultDelayMs},
     backoffMultiplier : {DefaultBackoffMultiplier, 3},
     retryableErrors : {{}, {"EPIPE"}, DefaultRetryableErrors}]

(***************************************************************************)
(* SpecRetry: one subscription of the pipeline                              *)
(***************************************************************************)
Last(s) == s[Len(s)]

\* firstValueFrom(...) subscribes: the source is invoked for the first time
Subscribe ==
    /\ rpc = "init"
    /\ rpc' = "running"
    /\ invocations' = 1
    /\ UNCHANGED <<route, cfg, errors, delays, result>>
    /\ UNCHANGED exceptRetry

\* the source emits its response: firstValueFrom resolves and unsubscribes
SourceNext ==
    /\ rpc = "running"
    /\ rpc' = "done"
    /\ result' = Value(invocations)
    /\ UNCHANGED <<route, cfg, errors, invocations, delays>>
    /\ UNCHANGED exceptRetry

\* faulty variant: the first failure of the pipeline is propagated
OnError_FirstError(error) ==
    LET d == RetryHandler(cfg, error, Len(errors))
    IN  /\ errors' = Append(errors, error)
        /\ IF d.kind = "throw"
           THEN /\ rpc' = "done"
                /\ result' = Failure(IF errors = <<>> THEN d.error ELSE errors[1])
                /\ delays' = delays
           ELSE /\ rpc' = "backoff"
                /\ delays' = Append(delays, d.delay)
                /\ result' = result
        /\ UNCHANGED <<route, cfg, invocations>>
        /\ UNCHANGED exceptRetry

\* what the retryWhen notifier does with an error of the source
OnError(error) ==
    LET d == RetryHandler(cfg, error, Len(errors))
    IN  /\ errors' = Append(errors, error)
        /\ IF d.kind = "throw"
           THEN /\ rpc' = "done"
                /\ result' = Failure(d.error)
                /\ delays' = delays
           ELSE /\ rpc' = "backoff"
                /\ delays' = Append(delays, d.delay)
                /\ result' = result
        /\ UNCHANGED <<route, cfg, invocations>>
        /\ UNCHANGED exceptRetry

\* the remote call fails (transport error or error response)
SourceError ==
    /\ rpc = "running"
    /\ \E e \in SourceErrors : OnError(e)

\* timeout(t) fires before the source emitted
SourceTimeout ==
    /\ rpc = "running"
    /\ OnError(TimeoutError)

\* timer(delay) emits: retryWhen resubscribes to the source
TimerFires ==
    /\ rpc = "backoff"
    /\ rpc' = "running"
    /\ invocations' = invocations + 1
    /\ UNCHANGED <<route, cfg, errors, delays, result>>
    /\ UNCHANGED exceptRetry

(***************************************************************************)
(* IdempotencyService (events-service)                                      *)
(***************************************************************************)
ttlMs == 24 * 60 * 60 * 1000

\* the clock is observed every half retention window
TickMs == ttlMs \div 2

NoKey == "undefined"
Keys == {"k1", "k2"}
NoRecord == [key |-> NoKey]
Reqs == 1..NumReqs

\* faulty variant: every record counts as expired
IsFresh_Never(existing, t) == FALSE

\* faulty variant: records never expire
IsFresh_Always(existing, t) == TRUE

\* lines 26-27: age = Date.now() - existing.timestamp; age < ttlMs
IsFresh(existing, t) == (t - existing.timestamp) < ttlMs

\* faulty variant: the lookup never replays
Lookup_NoReplay(c, key, t) ==
    [hit |-> FALSE, response |-> NoKey, cache |-> c]

\* lines 24-34: the lookup; a stale record is deleted on the way
Lookup(c, key, t) ==
    LET existing == c[key]
    IN  IF existing # NoRecord
        THEN IF IsFresh(existing, t)
             THEN [hit |-> TRUE, response |-> existing.response, cache |-> c]
             ELSE [hit |-> FALSE, response |-> NoKey,
                   cache |-> [c EXCEPT ![key] = NoRecord]]
        ELSE [hit |-> FALSE, response |-> NoKey, cache |-> c]

cleanupExpired(c, t) ==
    [k \in Keys |->
        IF c[k] # NoRecord /\ (t - c[k].timestamp) > ttlMs THEN NoRecord ELSE c[k]]

\* faulty variant: a record already under the key is kept
Store_KeepsFirst(c, key, response, t) ==
    cleanupExpired(
        IF c[key] # NoRecord THEN c
        ELSE [c EXCEPT ![key] = [key |-> key, response |-> response, timestamp |-> t]],
        t)

\* lines 40-47: cache.set(key, {key, response, timestamp}); cleanupExpired()
Store(c, key, response, t) ==
    cleanupExpired(
        [c EXCEPT ![key] = [key |-> key, response |-> response, timestamp |-> t]],
        t)

(***************************************************************************)
(* Spec: inbound gateway requests on the keyed write routes.  Each request *)
(* subscribes once to send(...).pipe(timeout, retryWithBackoff); the       *)
(* events-service handler it reaches runs checkAndStore around the         *)
(* EventsService operation.                                                *)
(*   gw  gateway handler: "idle" | "waiting" | "done"                      *)
(*   h   events-service handler: "none" | "sent" (message in flight) |     *)
(*       "op" (awaiting operation()) | "replied" | "closed"                *)
(***************************************************************************)
NoneSeen == [found |-> FALSE]

IdleReq ==
    [gw |-> "idle", ep |-> "none", key |-> NoKey, remoteCalls |-> 0,
     out |-> NoResult, h |-> "none", opInvoked |-> FALSE, seen |-> NoneSeen,
     reply |-> NoResult]

\* the value the EventsService operation of request r resolves to
OpResult(r) == <<req[r].ep, r>>

\* claim-side reading of "within the retention window"
WithinWindow(rec, t) == (t - rec.timestamp) < ttlMs

\* claim-side reading of "older than the retention window"
OlderThanWindow(rec, t) == (t - rec.timestamp) > ttlMs

\* what the lookup of a keyed call found in the store (history variable)
Observed(key, t) ==
    IF key = NoKey \/ cache[key] = NoRecord
    THEN NoneSeen
    ELSE [found |-> TRUE, response |-> cache[key].response,
          fresh |-> WithinWindow(cache[key], t),
          older |-> OlderThanWindow(cache[key], t)]

\* api-gateway EventsController.create/submit/approve/reject
GatewayRequest(r) ==
    /\ req[r].gw = "idle"
    /\ \E ep \in SpecRoutes, key \in Keys \cup {NoKey} :
          req' = [req EXCEPT ![r].gw = "waiting", ![r].ep = ep, ![r].key = key,
                             ![r].remoteCalls = 1, ![r].h = "sent"]
    /\ UNCHANGED <<now, cache>>
    /\ UNCHANGED exceptIdem

\* events-service EventsController handler: checkAndStore up to its first await
BackendReceive(r) ==
    /\ req[r].h = "sent"
    /\ IF req[r].key = NoKey
       THEN /\ req' = [req EXCEPT ![r].h = "op", ![r].opInvoked = TRUE]
            /\ cache' = cache
       ELSE LET l == Lookup(cache, req[r].key, now)
            IN  /\ cache' = l.cache
                /\ IF l.hit
                   THEN req' = [req EXCEPT ![r].h = "replied",
                                           ![r].seen = Observed(req[r].key, now),
                                           ![r].reply = Value(l.response)]
                   ELSE req' = [req EXCEPT ![r].h = "op",
                                           ![r].seen = Observed(req[r].key, now),
                                           ![r].opInvoked = TRUE]
    /\ UNCHANGED now
    /\ UNCHANGED exceptIdem

\* faulty variant: the sweep also runs for calls without a key
OpSucceeds_SweepsAlways(r) ==
    /\ req[r].h = "op"
    /\ cache' = IF req[r].key = NoKey THEN cleanupExpired(cache, now)
                ELSE Store(cache, req[r].key, OpResult(r), now)
    /\ req' = [req EXCEPT ![r].h = "replied", ![r].reply = Value(OpResult(r))]
    /\ UNCHANGED now
    /\ UNCHANGED exceptIdem

\* operation() resolves: store, sweep, return
OpSucceeds(r) ==
    /\ req[r].h = "op"
    /\ cache' = IF req[r].key = NoKey THEN cache
                ELSE Store(cache, req[r].key, OpResult(r), now)
    /\ req' = [req EXCEPT ![r].h = "replied", ![r].reply = Value(OpResult(r))]
    /\ UNCHANGED now
    /\ UNCHANGED exceptIdem

\* faulty variant: the outcome of a failed operation is stored as well
OpFails_Caches(r) ==
    /\ req[r].h = "op"
    /\ cache' = IF req[r].key = NoKey THEN cache
                ELSE Store(cache, req[r].key, OpResult(r), now)
    /\ req' = [req EXCEPT ![r].h = "replied", ![r].reply = Failure(BackendError)]
    /\ UNCHANGED now
    /\ UNCHANGED exceptIdem

\* operation() rejects: nothing is stored, the failure propagates
OpFails(r) ==
    /\ req[r].h = "op"
    /\ req' = [req EXCEPT ![r].h = "replied", ![r].reply = Failure(BackendError)]
    /\ UNCHANGED <<now, cache>>
    /\ UNCHANGED exceptIdem

\* the gateway's retry wrapper for an error of the first subscription
GatewayOnError(r, e) == RetryHandler(RouteConfig(req[r].ep), e, 0)

\* the response reaches the gateway pipeline
GatewayResponse(r) ==
    /\ req[r].gw = "waiting"
    /\ req[r].h = "replied"
    /\ IF req[r].reply.kind = "value"
       THEN req' = [req EXCEPT ![r].gw = "done", ![r].h = "closed",
                               ![r].out = req[r].reply]
       ELSE /\ GatewayOnError(r, req[r].reply.error).kind = "throw"
            /\ req' = [req EXCEPT ![r].gw = "done", ![r].h = "closed",
                         ![r].out = Failure(GatewayOnError(r, req[r].reply.error).error)]
    /\ UNCHANGED <<now, cache>>
    /\ UNCHANGED exceptIdem

\* timeout(10000) fires first; the events-service handler is not cancelled
GatewayTimeout(r) ==
    /\ req[r].gw = "waiting"
    /\ GatewayOnError(r, TimeoutError).kind = "throw"
    /\ req' = [req EXCEPT ![r].gw = "done",
                          ![r].out = Failure(GatewayOnError(r, TimeoutError).error)]
    /\ UNCHANGED <<now, cache>>
    /\ UNCHANGED exceptIdem

\* the TCP connection to the events-service is refused: nothing is delivered
TransportError(r) ==
    /\ req[r].gw = "waiting"
    /\ req[r].h = "sent"
    /\ GatewayOnError(r, ConnRefused).kind = "throw"
    /\ req' = [req EXCEPT ![r].gw = "done", ![r].h = "closed",
                          ![r].out = Failure(GatewayOnError(r, ConnRefused).error)]
    /\ UNCHANGED <<now, cache>>
    /\ UNCHANGED exceptIdem

Tick ==
    /\ now < MaxTicks * TickMs
    /\ now' = now + TickMs
    /\ UNCHANGED <<cache, req>>
    /\ UNCHANGED exceptIdem

(***************************************************************************)
(* SpecGateway: one inbound HTTP request of the api-gateway.                *)
(* CorrelationIdInterceptor runs first (global interceptor), then the       *)
(* handler builds the payload once and subscribes to                        *)
(*     client.send(pattern, payload).pipe(timeout(T), retryWithBackoff(c)). *)
(* retryWhen resubscribes to the source it was applied to, i.e. to          *)
(* send(...).pipe(timeout(T)): every subscription sends the same payload    *)
(* and starts its own timeout timer.                                        *)
(***************************************************************************)
NoHeader == "undefined"              \* request.headers['x-correlation-id'] absent
HeaderValues == {NoHeader, "", "client-1", "client-2"}
UUIDs == {"uuid-1", "uuid-2"}        \* values randomUUID() may return
NoCorrelationId == "unset"           \* request.correlationId before the interceptor
NoPayload == [correlationId |-> NoCorrelationId]
GwErrors == {ConnRefused, BackendError}
GwTickMs == DefaultDelayMs           \* resolution of the clock

\* faulty variant: the inbound header is ignored
ResolveCorrelationId_IgnoresHeader(header, uuid) == uuid

\* request.headers['x-correlation-id'] || randomUUID()
ResolveCorrelationId(header, uuid) ==
    IF header \in {NoHeader, ""} THEN uuid ELSE header

\* faulty variant: the handler forgets the correlation id
Payload_NoCorrelation(rq) == NoPayload

\* the data object of client.send: { ..., correlationId: req.correlationId }
Payload(rq) == [correlationId |-> rq.correlationId]

\* faulty variant: one timeout window for the whole request
AttemptDeadline_WholeRequest(rt, as) == as[1].at + RouteTimeoutMs(rt)

\* timeout(T) sits inside the resubscribed source: T after this subscription
AttemptDeadline(rt, as) == Last(as).at + RouteTimeoutMs(rt)

NewAttempt(p, t) == [correlationId |-> p.correlationId, at |-> t, end |-> t, how |-> "pending"]

EndAttempt(as, how, t) ==
    [as EXCEPT ![Len(as)] = [@ EXCEPT !.end = t, !.how = how]]

GatewayIdle ==
    /\ httpRequest = [route |-> "none", header |-> NoHeader, correlationId |-> NoCorrelationId]
    /\ httpResponse = [header |-> NoCorrelationId, body |-> NoResult]
    /\ payload = NoPayload
    /\ attempts = <<>>
    /\ clock = 0
    /\ gpc = "idle"
    /\ timerDue = 0

\* faulty variant: the response header is left for the handler's completion
Intercept_NoHeader ==
    /\ gpc = "interceptor"
    /\ \E uuid \in UUIDs :
          httpRequest' = [httpRequest EXCEPT
                             !.correlationId = ResolveCorrelationId(httpRequest.header, uuid)]
    /\ gpc' = "handler"
    /\ UNCHANGED <<httpResponse, payload, attempts, clock, timerDue>>
    /\ UNCHANGED exceptGateway

\* CorrelationIdInterceptor.intercept
Intercept ==
    /\ gpc = "interceptor"
    /\ \E uuid \in UUIDs :
          LET correlationId == ResolveCorrelationId(httpRequest.header, uuid) IN
          /\ httpRequest' = [httpRequest EXCEPT !.correlationId = correlationId]
          /\ httpResponse' = [httpResponse EXCEPT !.header = correlationId]
    /\ gpc' = "handler"
    /\ UNCHANGED <<payload, attempts, clock, timerDue>>
    /\ UNCHANGED exceptGateway

\* the controller method: build the payload, subscribe (firstValueFrom)
Handle ==
    /\ gpc = "handler"
    /\ payload' = Payload(httpRequest)
    /\ attempts' = <<NewAttempt(Payload(httpRequest), clock)>>
    /\ gpc' = "attempt"
    /\ UNCHANGED <<httpRequest, httpResponse, clock, timerDue>>
    /\ UNCHANGED exceptGateway

\* time passes while an attempt or a backoff timer is pending
Advance ==
    /\ \/ gpc = "attempt" /\ clock < AttemptDeadline(httpRequest.route, attempts)
       \/ gpc = "backoff" /\ clock < timerDue
    /\ clock' = clock + GwTickMs
    /\ UNCHANGED <<httpRequest, httpResponse, payload, attempts, gpc, timerDue>>
    /\ UNCHANGED exceptGateway

\* the microservice answers before the timeout of the attempt
AttemptValue ==
    /\ gpc = "attempt"
    /\ clock < AttemptDeadline(httpRequest.route, attempts)
    /\ attempts' = EndAttempt(attempts, "value", clock)
    /\ httpResponse' = [httpResponse EXCEPT !.body = Value(Len(attempts))]
    /\ gpc' = "done"
    /\ UNCHANGED <<httpRequest, payload, clock, timerDue>>
    /\ UNCHANGED exceptGateway

\* the attempt ended with error: the retryWhen callback decides
AttemptFailed(how, error) ==
    LET h == RetryHandler(RouteConfig(httpRequest.route), error, Len(attempts) - 1) IN
    /\ attempts' = EndAttempt(attempts, how, clock)
    /\ IF h.kind = "throw"
       THEN /\ httpResponse' = [httpResponse EXCEPT !.body = Failure(h.error)]
            /\ gpc' = "done"
            /\ UNCHANGED timerDue
       ELSE /\ timerDue' = clock + h.delay
            /\ gpc' = "backoff"
            /\ UNCHANGED httpResponse
    /\ UNCHANGED <<httpRequest, payload, clock>>
    /\ UNCHANGED exceptGateway

\* the microservice or the transport raises an error before the timeout
AttemptError ==
    /\ gpc = "attempt"
    /\ clock < AttemptDeadline(httpRequest.route, attempts)
    /\ \E error \in GwErrors : AttemptFailed("error", error)

\* timeout(T) of the attempt fires
AttemptTimeout ==
    /\ gpc = "attempt"
    /\ clock = AttemptDeadline(httpRequest.route, attempts)
    /\ AttemptFailed("timeout", TimeoutError)

\* timer(delay) fires: retryWhen resubscribes, the same payload is sent again
BackoffTimer ==
    /\ gpc = "backoff"
    /\ clock = timerDue
    /\ attempts' = Append(attempts, NewAttempt(payload, clock))
    /\ gpc' = "attempt"
    /\ UNCHANGED <<httpRequest, httpResponse, payload, clock, timerDue>>
    /\ UNCHANGED exceptGateway

(***************************************************************************)
(* EventsService (events-service/src/events/events.service.ts, and the     *)
(* monolith's service of the same name).  Every method reads the row        *)
(* (findUnique), runs its checks on what it read, and then awaits the       *)
(* write: a call is an action that reads and checks, and, if the checks     *)
(* pass, a second action that writes.  impl selects the implementation.     *)
(***************************************************************************)
Impls == {"events-service", "monolith"}
Callers == {"alice", "bob", "mod", "admin", "eve"}
Creators == {"alice", "mod", "admin", "eve"}   \* callers that issue create
EventIds == {"e1"}
Dates == 1..MaxDate
NoDate == 0                                  \* dto field absent
NoReason == "null"
Reasons == {"reason-1", "reason-2"}
NoEvent == [status |-> "NONE"]
NoDto == [startDate |-> NoDate, endDate |-> NoDate]
CreateDtos == [startDate : Dates, endDate : Dates]
UpdateDtos == [startDate : Dates \cup {NoDate}, endDate : Dates \cup {NoDate}]

\* the authenticated user of the gateway: user.role, user.organizationId
Role(u) ==
    CASE u \in {"alice", "bob"} -> "USER"
      [] u = "mod" -> "MODERATOR"
      [] OTHER -> "ADMIN"

Org(u) == IF u = "eve" THEN "org-2" ELSE "org-1"

\* create: endDate <= startDate is rejected
CreateCheck(dto) ==
    IF dto.endDate <= dto.startDate THEN "BadRequest" ELSE "ok"

Created(dto, u) ==
    [status |-> "DRAFT", organizationId |-> Org(u), createdById |-> u,
     startDate |-> dto.startDate, endDate |-> dto.endDate,
     rejectionReason |-> NoReason]

\* findAllPaginated: the where clause
ListWhere(event, u) ==
    /\ event # NoEvent
    /\ event.organizationId = Org(u)
    /\ Role(u) = "USER" => event.createdById = u

\* faulty variant: the organization of the row is not compared
OrgDenied_Never(event, u) == FALSE

\* event.organizationId !== organizationId
OrgDenied(event, u) == event.organizationId # Org(u)

FindOneCheck(event, u) ==
    IF event = NoEvent THEN "NotFound"
    ELSE IF OrgDenied(event, u) THEN "Forbidden"
    ELSE IF Role(u) = "USER" /\ event.createdById # u THEN "Forbidden"
    ELSE "ok"

\* the dates an update would leave in the row
DatesAfter(event, dto) ==
    [startDate |-> IF dto.startDate # NoDate THEN dto.startDate ELSE event.startDate,
     endDate |-> IF dto.endDate # NoDate THEN dto.endDate ELSE event.endDate]

\* faulty variant: a USER may edit an own event in any status
UpdateCheck_AnyStatus(impl, event, dto, u) ==
    IF event = NoEvent THEN "NotFound"
    ELSE IF OrgDenied(event, u) THEN "Forbidden"
    ELSE IF Role(u) = "USER" /\ event.createdById # u THEN "Forbidden"
    ELSE "ok"

UpdateCheck(impl, event, dto, u) ==
    IF event = NoEvent THEN "NotFound"
    ELSE IF OrgDenied(event, u) THEN "Forbidden"
    ELSE IF Role(u) = "USER" /\ event.createdById # u THEN "Forbidden"
    ELSE IF Role(u) = "USER" /\ event.status # "DRAFT" THEN "Forbidden"
    ELSE IF /\ impl = "monolith"
            /\ (dto.startDate # NoDate \/ dto.endDate # NoDate)
            /\ DatesAfter(event, dto).endDate <= DatesAfter(event, dto).startDate
         THEN "BadRequest"
    ELSE "ok"

Updated(event, dto) ==
    [event EXCEPT !.startDate = DatesAfter(event, dto).startDate,
                  !.endDate = DatesAfter(event, dto).endDate]

RemoveCheck(event, u) ==
    IF event = NoEvent THEN "NotFound"
    ELSE IF OrgDenied(event, u) THEN "Forbidden"
    ELSE IF Role(u) = "USER" /\ event.createdById # u THEN "Forbidden"
    ELSE IF Role(u) = "USER" /\ event.status # "DRAFT" THEN "Forbidden"
    ELSE IF Role(u) = "MODERATOR" THEN "Forbidden"
    ELSE "ok"

\* faulty variant: a rejected event may be submitted as well
SubmitCheck_AlsoRejected(event, u) ==
    IF event = NoEvent THEN "NotFound"
    ELSE IF OrgDenied(event, u) THEN "Forbidden"
    ELSE IF event.createdById # u THEN "Forbidden"
    ELSE IF event.status \notin {"DRAFT", "REJECTED"} THEN "Conflict"
    ELSE "ok"

SubmitCheck(event, u) ==
    IF event = NoEvent THEN "NotFound"
    ELSE IF OrgDenied(event, u) THEN "Forbidden"
    ELSE IF event.createdById # u THEN "Forbidden"
    ELSE IF event.status # "DRAFT" THEN "Conflict"
    ELSE "ok"

\* faulty variant: no role check in front of the lookup
DecideRoleCheck_None(u) == "ok"

\* approve and reject: the role is checked before the row is read
DecideRoleCheck(u) == IF Role(u) = "USER" THEN "Forbidden" ELSE "ok"

DecideCheck(event, u) ==
    IF event = NoEvent THEN "NotFound"
    ELSE IF OrgDenied(event, u) THEN "Forbidden"
    ELSE IF event.status # "SUBMITTED" THEN "Conflict"
    ELSE "ok"

\* the row after prisma.event.update({ where: { id }, data }) of a call
\* faulty variant: reject sets the status and leaves the reason as it was
Written_StatusOnly(event, w) ==
    CASE w.op = "update" -> Updated(event, w.dto)
      [] w.op = "submit" ->
            [event EXCEPT !.status = "SUBMITTED", !.rejectionReason = NoReason]
      [] w.op = "approve" ->
            [event EXCEPT !.status = "APPROVED", !.rejectionReason = NoReason]
      [] w.op = "reject" -> [event EXCEPT !.status = "REJECTED"]

Written(event, w) ==
    CASE w.op = "update" -> Updated(event, w.dto)
      [] w.op = "submit" ->
            [event EXCEPT !.status = "SUBMITTED", !.rejectionReason = NoReason]
      [] w.op = "approve" ->
            [event EXCEPT !.status = "APPROVED", !.rejectionReason = NoReason]
      [] w.op = "reject" ->
            [event EXCEPT !.status = "REJECTED", !.rejectionReason = w.reason]

NoCall == [op |-> "none"]

Call(op, id, u, dto, reason, saw) ==
    [op |-> op, id |-> id, by |-> u, dto |-> dto, reason |-> reason, saw |-> saw]

Finished(op, id, u, saw, outcome, data) ==
    [op |-> op, id |-> id, by |-> u, saw |-> saw, outcome |-> outcome, data |-> data]

\* the method throws, or returns what it read
Return(op, id, u, saw, outcome, data) ==
    /\ last' = Finished(op, id, u, saw, outcome, data)
    /\ UNCHANGED <<events, pending>>
    /\ UNCHANGED exceptEvents

\* the method reaches its awaited write
Await(op, id, u, dto, reason, saw) ==
    /\ pending' = pending \cup {Call(op, id, u, dto, reason, saw)}
    /\ UNCHANGED <<events, last>>
    /\ UNCHANGED exceptEvents

create(dto, u, id) ==
    /\ events[id] = NoEvent
    /\ \A w \in pending : w.id # id
    /\ IF CreateCheck(dto) = "ok"
       THEN Await("create", id, u, dto, NoReason, NoEvent)
       ELSE Return("create", id, u, NoEvent, CreateCheck(dto), {})

findAllPaginated(u) ==
    Return("findAll", "none", u, NoEvent, "ok",
           {id \in EventIds : ListWhere(events[id], u)})

findOne(id, u) ==
    LET event == events[id] IN
    Return("findOne", id, u, event, FindOneCheck(event, u),
           IF FindOneCheck(event, u) = "ok" THEN {id} ELSE {})

update(impl, id, dto, u) ==
    LET event == events[id] IN
    IF UpdateCheck(impl, event, dto, u) = "ok"
    THEN Await("update", id, u, dto, NoReason, event)
    ELSE Return("update", id, u, event, UpdateCheck(impl, event, dto, u), {})

remove(id, u) ==
    LET event == events[id] IN
    IF RemoveCheck(event, u) = "ok"
    THEN Await("remove", id, u, NoDto, NoReason, event)
    ELSE Return("remove", id, u, event, RemoveCheck(event, u), {})

submit(id, u) ==
    LET event == events[id] IN
    IF SubmitCheck(event, u) = "ok"
    THEN Await("submit", id, u, NoDto, NoReason, event)
    ELSE Return("submit", id, u, event, SubmitCheck(event, u), {})

Decide(op, id, u, reason) ==
    LET event == events[id] IN
    IF DecideRoleCheck(u) # "ok"
    THEN Return(op, id, u, event, DecideRoleCheck(u), {})
    ELSE IF DecideCheck(event, u) = "ok"
    THEN Await(op, id, u, NoDto, reason, event)
    ELSE Return(op, id, u, event, DecideCheck(event, u), {})

approve(id, u) == Decide("approve", id, u, NoReason)

reject(id, u, reason) == Decide("reject", id, u, reason)

\* the awaited prisma write of a call completes and the method returns
Commit(w) ==
    /\ w \in pending
    /\ pending' = pending \ {w}
    /\ IF w.op = "create"
       THEN /\ events' = [events EXCEPT ![w.id] = Created(w.dto, w.by)]
            /\ last' = Finished(w.op, w.id, w.by, w.saw, "ok", {w.id})
       ELSE IF events[w.id] = NoEvent
       THEN /\ events' = events
            /\ last' = Finished(w.op, w.id, w.by, w.saw, "RecordNotFound", {})
       ELSE IF w.op = "remove"
       THEN /\ events' = [events EXCEPT ![w.id] = NoEvent]
            /\ last' = Finished(w.op, w.id, w.by, w.saw, "ok", {})
       ELSE /\ events' = [events EXCEPT ![w.id] = Written(@, w)]
            /\ last' = Finished(w.op, w.id, w.by, w.saw, "ok", {w.id})
    /\ UNCHANGED exceptEvents

EventsIdle ==
    /\ events = [id \in EventIds |-> NoEvent]
    /\ pending = {}
    /\ last = NoCall

(***************************************************************************)
(* EventBusService (monolith-api/src/common/events/event-bus.service.ts)    *)
(* and the publish step of the monolith's submit, approve and reject.       *)
(* A handler is a function (event) => Promise<void>: called inside          *)
(* handlers.map it returns a promise that later resolves or rejects, or it  *)
(* throws before returning one.                                             *)
(***************************************************************************)
EventTypes == {"event.submitted", "event.approved", "event.rejected"}
HandlerKinds == {"resolves", "rejects", "throws"}
NoDelivery == [eventType |-> "none"]

\* index of the first handler that throws inside handlers.map, 0 if none
FirstThrow(hs) ==
    IF \E i \in 1..Len(hs) : hs[i] = "throws"
    THEN CHOOSE i \in 1..Len(hs) :
            /\ hs[i] = "throws"
            /\ \A j \in 1..(i - 1) : hs[j] # "throws"
    ELSE 0

\* how often publish calls each registered handler
HandlerCalls(hs) ==
    [i \in 1..Len(hs) |->
        IF FirstThrow(hs) = 0 \/ i <= FirstThrow(hs) THEN 1 ELSE 0]

\* the promise publish returns: allSettled absorbs rejections, not a throw
\* of handlers.map
PublishResult(hs) == IF FirstThrow(hs) = 0 THEN "resolved" ELSE "rejected"

Delivery(eventType, hs) ==
    [eventType |-> eventType, handlers |-> hs,
     calls |-> HandlerCalls(hs), result |-> PublishResult(hs)]

DomainEventType(op) ==
    CASE op = "submit" -> "event.submitted"
      [] op = "approve" -> "event.approved"
      [] op = "reject" -> "event.rejected"

DomainEvent(w) == [eventType |-> DomainEventType(w.op), aggregateId |-> w.id]

BusIdle ==
    /\ handlers = [t \in EventTypes |-> <<>>]
    /\ publishing = {}
    /\ published = <<>>
    /\ delivered = NoDelivery

\* EventBusService.on
on(eventType, handler) ==
    /\ Len(handlers[eventType]) < MaxHandlers
    /\ handlers' = [handlers EXCEPT ![eventType] = Append(@, handler)]
    /\ UNCHANGED <<publishing, published, delivered>>
    /\ UNCHANGED exceptBus

\* EventBusService.off
off(eventType) ==
    /\ handlers' = [handlers EXCEPT ![eventType] = <<>>]
    /\ UNCHANGED <<publishing, published, delivered>>
    /\ UNCHANGED exceptBus

\* EventBusService.clear
clear ==
    /\ handlers' = [t \in EventTypes |-> <<>>]
    /\ UNCHANGED <<publishing, published, delivered>>
    /\ UNCHANGED exceptBus

\* EventBusService.publish, called on its own
publish(eventType) ==
    /\ delivered' = Delivery(eventType, handlers[eventType])
    /\ UNCHANGED <<handlers, publishing, published>>
    /\ UNCHANGED exceptBus

\* monolith: the awaited prisma write of a call completes; submit, approve
\* and reject go on to publish their domain event
CommitMonolith(w) ==
    IF w.op \in {"submit", "approve", "reject"} /\ events[w.id] # NoEvent
    THEN /\ w \in pending
         /\ pending' = pending \ {w}
         /\ events' = [events EXCEPT ![w.id] = Written(@, w)]
         /\ publishing' = publishing \cup {w}
         /\ published' = <<>>
         /\ UNCHANGED <<last, handlers, delivered>>
         /\ UNCHANGED <<retryVars, idemVars, gwVars>>
    ELSE Commit(w)

\* faulty variant: the domain event is published twice
PublishDomainEvent_Twice(w) ==
    LET hs == handlers[DomainEventType(w.op)] IN
    /\ w \in publishing
    /\ publishing' = publishing \ {w}
    /\ published' = published \o <<DomainEvent(w), DomainEvent(w)>>
    /\ delivered' = Delivery(DomainEventType(w.op), hs)
    /\ last' = Finished(w.op, w.id, w.by, w.saw,
                        IF PublishResult(hs) = "resolved" THEN "ok" ELSE "HandlerError",
                        {w.id})
    /\ UNCHANGED <<events, pending, handlers>>
    /\ UNCHANGED <<retryVars, idemVars, gwVars>>

\* monolith: await this.eventBus.publish(new Event...Event(...)); return
PublishDomainEvent(w) ==
    LET hs == handlers[DomainEventType(w.op)] IN
    /\ w \in publishing
    /\ publishing' = publishing \ {w}
    /\ published' = Append(published, DomainEvent(w))
    /\ delivered' = Delivery(DomainEventType(w.op), hs)
    /\ last' = Finished(w.op, w.id, w.by, w.saw,
                        IF PublishResult(hs) = "resolved" THEN "ok" ELSE "HandlerError",
                        {w.id})
    /\ UNCHANGED <<events, pending, handlers>>
    /\ UNCHANGED <<retryVars, idemVars, gwVars>>

\* handler lists the monolith runs with
MonolithHandlers ==
    {<<>>, <<"resolves">>, <<"rejects", "resolves">>, <<"throws", "resolves">>}

(***************************************************************************)
(* SpecKeyed: the keyed message handlers of the events-service controller. *)
(* events.create, events.submit, events.approve and events.reject each run *)
(*     idempotencyService.checkAndStore(idempotencyKey, () => service.op)  *)
(* on the one IdempotencyService instance of the process; the checks of    *)
(* the EventsService method run inside operation(), after the lookup.      *)
(***************************************************************************)
KeyedOps == {"create", "submit", "approve", "reject"}
KeyedCallers == {"alice", "mod", "eve"}
KeyedDto == [startDate |-> 1, endDate |-> 2]

\* the value the EventsService method of a call resolves to
KeyedResult(op, id, u) == <<op, id, u>>

\* the checks the EventsService method makes before its write
KeyedCheck(op, event, u) ==
    CASE op = "create" -> CreateCheck(KeyedDto)
      [] op = "submit" -> SubmitCheck(event, u)
      [] op \in {"approve", "reject"} ->
            IF DecideRoleCheck(u) # "ok" THEN DecideRoleCheck(u)
            ELSE DecideCheck(event, u)

\* faulty variant: the checks of the method run in front of the lookup
KeyedOutcome_ChecksFirst(hit, check) ==
    IF check # "ok" THEN check ELSE IF hit THEN "replay" ELSE "await"

\* checkAndStore: a fresh record is returned before operation() is called
KeyedOutcome(hit, check) ==
    IF hit THEN "replay" ELSE IF check = "ok" THEN "await" ELSE check

KeyedCall(op, id, u, key, saw) ==
    [op |-> op, id |-> id, by |-> u, key |-> key, saw |-> saw,
     dto |-> KeyedDto, reason |-> IF op = "reject" THEN "reason-1" ELSE NoReason]

KeyedFinished(op, id, u, key, hit, outcome, data) ==
    [op |-> op, id |-> id, by |-> u, key |-> key, hit |-> hit,
     outcome |-> outcome, data |-> data]

\* a message handler of the controller up to its first awaited write
KeyedMessage(op, id, u, key) ==
    LET l == IF key = NoKey THEN [hit |-> FALSE, response |-> NoKey, cache |-> cache]
             ELSE Lookup(cache, key, now)
        how == KeyedOutcome(l.hit, KeyedCheck(op, events[id], u))
    IN  /\ pending = {}
        /\ (op = "create" /\ ~l.hit) => events[id] = NoEvent
        /\ cache' = l.cache
        /\ CASE how = "replay" ->
                  /\ last' = KeyedFinished(op, id, u, key, TRUE, "ok", l.response)
                  /\ pending' = pending
             [] how = "await" ->
                  /\ pending' = {KeyedCall(op, id, u, key, events[id])}
                  /\ last' = last
             [] OTHER ->
                  /\ last' = KeyedFinished(op, id, u, key, FALSE, how, NoKey)
                  /\ pending' = pending
        /\ UNCHANGED <<events, now, req>>
        /\ UNCHANGED <<retryVars, gwVars, busVars>>

\* the awaited write completes, operation() resolves, the result is stored
KeyedCommit(w) ==
    /\ w \in pending
    /\ pending' = pending \ {w}
    /\ events' = [events EXCEPT ![w.id] =
                     IF w.op = "create" THEN Created(w.dto, w.by) ELSE Written(@, w)]
    /\ cache' = IF w.key = NoKey THEN cache
                ELSE Store(cache, w.key, KeyedResult(w.op, w.id, w.by), now)
    /\ last' = KeyedFinished(w.op, w.id, w.by, w.key, FALSE, "ok",
                             KeyedResult(w.op, w.id, w.by))
    /\ UNCHANGED <<now, req>>
    /\ UNCHANGED <<retryVars, gwVars, busVars>>

IdemInit ==
    /\ now = 0
    /\ cache = [k \in Keys |-> NoRecord]
    /\ req = [r \in Reqs |-> IdleReq]

RetryIdle ==
    /\ route = "custom"
    /\ cfg = RetryConfig(DefaultMaxAttempts)
    /\ rpc = "init"
    /\ errors = <<>>
    /\ invocations = 0
    /\ delays = <<>>
    /\ result = NoResult

Init ==
    /\ IdemInit
    /\ RetryIdle
    /\ GatewayIdle
    /\ EventsIdle
    /\ BusIdle

Next ==
    \/ \E r \in Reqs : GatewayRequest(r)
    \/ \E r \in Reqs : BackendReceive(r)
    \/ \E r \in Reqs : OpSucceeds(r)
    \/ \E r \in Reqs : OpFails(r)
    \/ \E r \in Reqs : GatewayResponse(r)
    \/ \E r \in Reqs : GatewayTimeout(r)
    \/ \E r \in Reqs : TransportError(r)
    \/ Tick

Spec == Init /\ [][Next]_vars

InitRetry ==
    /\ \/ /\ route \in GatewayRoutes
          /\ cfg = RouteConfig(route)
       \/ /\ route = "custom"
          /\ cfg \in CustomConfigs
    /\ rpc = "init"
    /\ errors = <<>>
    /\ invocations = 0
    /\ delays = <<>>
    /\ result = NoResult
    /\ IdemInit
    /\ GatewayIdle
    /\ EventsIdle
    /\ BusIdle

NextRetry ==
    \/ Subscribe
    \/ SourceNext
    \/ SourceError
    \/ SourceTimeout
    \/ TimerFires

SpecRetry == InitRetry /\ [][NextRetry]_vars

InitGateway ==
    /\ httpRequest \in [route : GatewayRoutes, header : HeaderValues,
                    correlationId : {NoCorrelationId}]
    /\ httpResponse = [header |-> NoCorrelationId, body |-> NoResult]
    /\ payload = NoPayload
    /\ attempts = <<>>
    /\ clock = 0
    /\ gpc = "interceptor"
    /\ timerDue = 0
    /\ IdemInit
    /\ RetryIdle
    /\ EventsIdle
    /\ BusIdle

NextGateway ==
    \/ Intercept
    \/ Handle
    \/ Advance
    \/ AttemptValue
    \/ AttemptError
    \/ AttemptTimeout
    \/ BackoffTimer

SpecGateway == InitGateway /\ [][NextGateway]_vars

InitEvents ==
    /\ EventsIdle
    /\ BusIdle
    /\ IdemInit
    /\ RetryIdle
    /\ GatewayIdle

\* the operations of the events-service, each issued after the previous one
\* has returned
NextEvents ==
    \/ \E dto \in CreateDtos, u \in Creators, id \in EventIds :
          pending = {} /\ create(dto, u, id)
    \/ \E u \in Callers :
          pending = {} /\ findAllPaginated(u)
    \/ \E id \in EventIds, u \in Callers :
          pending = {} /\ findOne(id, u)
    \/ \E id \in EventIds, dto \in UpdateDtos, u \in Callers :
          pending = {} /\ update("events-service", id, dto, u)
    \/ \E id \in EventIds, u \in Callers :
          pending = {} /\ remove(id, u)
    \/ \E id \in EventIds, u \in Callers :
          pending = {} /\ submit(id, u)
    \/ \E id \in EventIds, u \in Callers :
          pending = {} /\ approve(id, u)
    \/ \E id \in EventIds, u \in Callers, reason \in Reasons :
          pending = {} /\ reject(id, u, reason)
    \/ \E w \in pending : Commit(w)

SpecEvents == InitEvents /\ [][NextEvents]_vars

\* the same for the EventsService of the monolith
InitMonolith ==
    /\ EventsIdle
    /\ \E hs \in MonolithHandlers : handlers = [t \in EventTypes |-> hs]
    /\ publishing = {}
    /\ published = <<>>
    /\ delivered = NoDelivery
    /\ IdemInit
    /\ RetryIdle
    /\ GatewayIdle

NoneInFlight == pending = {} /\ publishing = {}

NextMonolith ==
    \/ \E dto \in CreateDtos, u \in Creators, id \in EventIds :
          NoneInFlight /\ create(dto, u, id)
    \/ \E u \in Callers :
          NoneInFlight /\ findAllPaginated(u)
    \/ \E id \in EventIds, u \in Callers :
          NoneInFlight /\ findOne(id, u)
    \/ \E id \in EventIds, dto \in UpdateDtos, u \in Callers :
          NoneInFlight /\ update("monolith", id, dto, u)
    \/ \E id \in EventIds, u \in Callers :
          NoneInFlight /\ remove(id, u)
    \/ \E id \in EventIds, u \in Callers :
          NoneInFlight /\ submit(id, u)
    \/ \E id \in EventIds, u \in Callers :
          NoneInFlight /\ approve(id, u)
    \/ \E id \in EventIds, u \in Callers, reason \in Reasons :
          NoneInFlight /\ reject(id, u, reason)
    \/ \E w \in pending : CommitMonolith(w)
    \/ \E w \in publishing : PublishDomainEvent(w)

SpecMonolith == InitMonolith /\ [][NextMonolith]_vars

InitBus ==
    /\ BusIdle
    /\ EventsIdle
    /\ IdemInit
    /\ RetryIdle
    /\ GatewayIdle

NextBus ==
    \/ \E t \in EventTypes, h \in HandlerKinds : on(t, h)
    \/ \E t \in EventTypes : off(t)
    \/ clear
    \/ \E t \in EventTypes : publish(t)

SpecBus == InitBus /\ [][NextBus]_vars

InitKeyed ==
    /\ EventsIdle
    /\ BusIdle
    /\ IdemInit
    /\ RetryIdle
    /\ GatewayIdle

NextKeyed ==
    \/ \E op \in KeyedOps, id \in EventIds, u \in KeyedCallers,
          key \in Keys \cup {NoKey} : KeyedMessage(op, id, u, key)
    \/ \E w \in pending : KeyedCommit(w)
    \/ Tick

SpecKeyed == InitKeyed /\ [][NextKeyed]_vars

InitDecide ==
    /\ EventsIdle
    /\ BusIdle
    /\ IdemInit
    /\ RetryIdle
    /\ GatewayIdle

\* the workflow operations of the events-service; approve and reject are
\* issued while other calls are still awaiting their prisma write
NextDecide ==
    \/ \E dto \in CreateDtos, u \in Creators, id \in EventIds :
          pending = {} /\ create(dto, u, id)
    \/ \E id \in EventIds, u \in Callers :
          pending = {} /\ submit(id, u)
    \/ \E id \in EventIds, u \in Callers :
          Cardinality(pending) < MaxInFlight /\ approve(id, u)
    \/ \E id \in EventIds, u \in Callers, reason \in Reasons :
          Cardinality(pending) < MaxInFlight /\ reject(id, u, reason)
    \/ \E w \in pending : Commit(w)

SpecDecide == InitDecide /\ [][NextDecide]_vars

(***************************************************************************)
(* Properties of Spec (idempotency behind the gateway)                      *)
(***************************************************************************)
SawFresh(r) == req[r].seen.found /\ req[r].seen.fresh

C2_AtMostOnce ==
    \A r1 \in Reqs :
        (req[r1].key # NoKey /\ req[r1].h = "op") =>
            /\ \A r2 \in Reqs \ {r1} :
                  ~(req[r2].key = req[r1].key /\ req[r2].h = "op")
            /\ ~(/\ cache[req[r1].key] # NoRecord
                 /\ WithinWindow(cache[req[r1].key], now))

SawOlder(r) == req[r].seen.found /\ req[r].seen.older

C11_Inv ==
    \A r \in Reqs :
        SawOlder(r) =>
            /\ req[r].opInvoked
            /\ req[r].h \in {"op", "replied", "closed"}
            /\ cache[req[r].key] # NoRecord =>
                  cache[req[r].key].response # req[r].seen.response
            /\ req[r].reply.kind = "value" => req[r].reply = Value(OpResult(r))

C11_Step ==
    \A r \in Reqs :
        (/\ req[r].key # NoKey
         /\ req[r].h = "op"
         /\ req'[r].reply.kind = "value")
            => cache'[req[r].key] =
                  [key |-> req[r].key, response |-> OpResult(r), timestamp |-> now]

\* C11: a keyed call that finds a record older than the retention window
\* invokes its operation again, the stale record is gone from the store for
\* good, and when an operation of a keyed call succeeds the store holds, for
\* that key, a record with the call's own result and the current time.
C11_Expiry == []C11_Inv /\ [][C11_Step]_vars

C11_Witness ==
    \E r \in Reqs :
        /\ SawOlder(r)
        /\ req[r].reply = Value(OpResult(r))
        /\ cache[req[r].key] =
              [key |-> req[r].key, response |-> OpResult(r), timestamp |-> now]
        /\ now > ttlMs

C12_Inv ==
    \A r \in Reqs :
        /\ (req[r].key # NoKey /\ req[r].reply.kind = "error") =>
              \A k \in Keys :
                  cache[k] # NoRecord => cache[k].response # OpResult(r)
        /\ (req[r].reply.kind = "error") =>
              /\ req[r].opInvoked
              /\ req[r].reply = Failure(BackendError)
              /\ req[r].h = "closed" => req[r].out = req[r].reply
        /\ (req[r].key # NoKey /\ req[r].h \in {"op", "replied"} /\ ~req[r].seen.found)
              => req[r].opInvoked

C12_Step ==
    \A r \in Reqs :
        (req[r].h = "op" /\ req'[r].reply.kind = "error") =>
            /\ cache' = cache
            /\ (req[r].key # NoKey /\ cache[req[r].key] # NoRecord) =>
                  \E w \in Reqs \ {r} :
                      /\ req[w].key = req[r].key
                      /\ req[w].opInvoked
                      /\ req[w].reply = Value(cache[req[r].key].response)

C13_Inv ==
    \A r \in Reqs :
        (req[r].gw # "idle" /\ req[r].key = NoKey) =>
            /\ req[r].seen = NoneSeen
            /\ req[r].h \in {"op", "replied"} => req[r].opInvoked
            /\ req[r].reply # NoResult =>
                  /\ req[r].opInvoked
                  /\ req[r].reply \in {Value(OpResult(r)), Failure(BackendError)}

C13_Step ==
    \A r \in Reqs :
        (req'[r] # req[r] /\ req'[r].key = NoKey) => cache' = cache

\* C13: a call without a key invokes its operation once it is received and
\* returns that operation's own outcome; no step of such a call looks up or
\* changes the store, whether the operation succeeds or fails.
C13_NoKeyPassThrough == []C13_Inv /\ [][C13_Step]_vars

C13_Witness ==
    \E r \in Reqs, k \in Keys :
        /\ req[r].key = NoKey
        /\ req[r].reply = Value(OpResult(r))
        /\ cache[k] # NoRecord
        /\ OlderThanWindow(cache[k], now)

(***************************************************************************)
(* Properties of SpecGateway                                                *)
(***************************************************************************)
HandlerReached == gpc \in {"handler", "attempt", "backoff", "done"}

C14_Inv ==
    /\ HandlerReached =>
          /\ httpRequest.correlationId # NoCorrelationId
          /\ httpResponse.header = httpRequest.correlationId
    /\ \A i \in DOMAIN attempts :
          attempts[i].correlationId = httpRequest.correlationId

C14_Step ==
    HandlerReached =>
        /\ httpRequest'.correlationId = httpRequest.correlationId
        /\ httpResponse'.header = httpResponse.header

\* C14: once the interceptor has run, request.correlationId holds one value
\* that never changes afterwards; the X-Correlation-ID response header holds
\* that value, and so does the payload of every downstream attempt, the first
\* one and every retry.
C14_CorrelationEcho == []C14_Inv /\ [][C14_Step]_vars

C14_Witness ==
    /\ gpc = "done"
    /\ Len(attempts) = 3
    /\ httpRequest.header = "client-1"
    /\ \A i \in 1..3 : attempts[i].correlationId = "client-1"
    /\ httpResponse.header = "client-1"

\* C15: a non-empty inbound x-correlation-id is the request's correlation ID
\* verbatim; an absent or empty one is replaced by a generated identifier; the
\* interceptor always ends with a correlation ID set.
C15_Resolve ==
    HandlerReached =>
        /\ httpRequest.header \notin {NoHeader, ""} =>
              httpRequest.correlationId = httpRequest.header
        /\ httpRequest.header \in {NoHeader, ""} =>
              httpRequest.correlationId \in UUIDs
        /\ httpRequest.correlationId \notin {NoCorrelationId, NoHeader, ""}

C15_Witness ==
    /\ gpc = "done"
    /\ httpRequest.header = ""
    /\ httpRequest.correlationId = "uuid-2"
    /\ httpResponse.header = "uuid-2"

Window == RouteTimeoutMs(httpRequest.route)

\* C16: every attempt has its own window of T ms counted from its own start:
\* an attempt is cut off by the timeout exactly T ms after it started, it can
\* deliver a value or an error at any earlier moment, and a retry starts after
\* the previous attempt and the backoff delay with the full window again.
C16_FreshTimeout ==
    \A i \in DOMAIN attempts :
        LET a == attempts[i] IN
        /\ a.how = "timeout" => a.end - a.at = Window
        /\ a.how \in {"value", "error"} => a.end - a.at < Window
        /\ a.how = "pending" => gpc = "attempt" /\ i = Len(attempts)
                                 /\ clock - a.at <= Window
        /\ i > 1 => a.at = attempts[i-1].end
                           + BackoffDelay(RouteConfig(httpRequest.route), i - 2)

C16_Witness ==
    /\ Len(attempts) = 3
    /\ attempts[1].end > attempts[1].at
    /\ attempts[3].how = "timeout"
    /\ attempts[3].end - attempts[3].at = Window
    /\ clock > 2 * Window

(***************************************************************************)
(* Properties of SpecEvents and SpecMonolith                                *)
(***************************************************************************)
Transitions ==
    {<<"DRAFT", "SUBMITTED">>, <<"SUBMITTED", "APPROVED">>, <<"SUBMITTED", "REJECTED">>}

TransitionOp(status) ==
    CASE status = "SUBMITTED" -> "submit"
      [] status = "APPROVED" -> "approve"
      [] status = "REJECTED" -> "reject"
      [] OTHER -> "none"

SawEvent == last.op \in {"findOne", "update", "remove", "submit", "approve", "reject"}
               /\ last.saw # NoEvent

SameOrg == last.saw.organizationId = Org(last.by)

Unchanged == events[last.id] = last.saw

C17_Inv ==
    /\ (/\ SawEvent /\ last.op = "submit"
        /\ SameOrg /\ last.saw.createdById = last.by
        /\ last.saw.status # "DRAFT")
          => last.outcome = "Conflict" /\ Unchanged
    /\ (/\ SawEvent /\ last.op \in {"approve", "reject"}
        /\ SameOrg /\ Role(last.by) \in {"MODERATOR", "ADMIN"}
        /\ last.saw.status # "SUBMITTED")
          => last.outcome = "Conflict" /\ Unchanged
    /\ \A id \in EventIds :
          events[id] # NoEvent =>
              events[id].status \in {"DRAFT", "SUBMITTED", "APPROVED", "REJECTED"}

C17_Step ==
    \A id \in EventIds :
        /\ (events[id] = NoEvent /\ events'[id] # NoEvent)
              => events'[id].status = "DRAFT"
        /\ (/\ events[id] # NoEvent /\ events'[id] # NoEvent
            /\ events'[id].status # events[id].status)
              => /\ <<events[id].status, events'[id].status>> \in Transitions
                 /\ last'.op = TransitionOp(events'[id].status)
                 /\ last'.id = id
                 /\ last'.outcome = "ok"

C18_Resubmit ==
    (/\ last.op = "submit"
     /\ last.saw # NoEvent
     /\ last.saw.status = "REJECTED"
     /\ last.saw.createdById = last.by)
        => /\ last.outcome = "ok"
           /\ events[last.id] # NoEvent
           /\ events[last.id].status = "SUBMITTED"

C19_Inv ==
    /\ (SawEvent /\ ~SameOrg) => last.outcome = "Forbidden" /\ Unchanged
    /\ last.op = "findAll" =>
          \A id \in last.data :
              events[id] # NoEvent /\ events[id].organizationId = Org(last.by)

C19_Step ==
    (last' # last /\ last'.outcome = "Forbidden") => events' = events

C21_OnlyModerators ==
    last.op \in {"approve", "reject"} =>
        /\ Role(last.by) = "USER" =>
              last.outcome = "Forbidden" /\ Unchanged
        /\ (/\ Role(last.by) \in {"MODERATOR", "ADMIN"}
            /\ last.saw # NoEvent
            /\ SameOrg
            /\ last.saw.status = "SUBMITTED")
              => /\ last.outcome = "ok"
                 /\ events[last.id] # NoEvent
                 /\ events[last.id].status =
                       (IF last.op = "approve" THEN "APPROVED" ELSE "REJECTED")

C21_Witness ==
    /\ last.op = "reject"
    /\ last.by = "alice"
    /\ last.saw = NoEvent
    /\ last.outcome = "Forbidden"
    /\ events[last.id] = NoEvent
    /\ pending = {}

\* C22: in the events-service every stored event has endDate after
\* startDate, and an update that would break this fails with BadRequest.
C22_DateOrder ==
    /\ \A id \in EventIds :
          events[id] # NoEvent => events[id].endDate > events[id].startDate
    /\ (last.op = "update" /\ last.outcome = "ok") =>
          events[last.id].endDate > events[last.id].startDate

(***************************************************************************)
(* Properties of SpecBus and of the publish step of SpecMonolith            *)
(***************************************************************************)
\* C23: a publish calls every handler registered for the event's type exactly
\* once and resolves, whatever the handlers do.
C23_HandlerIsolation ==
    delivered # NoDelivery =>
        /\ \A i \in 1..Len(delivered.handlers) : delivered.calls[i] = 1
        /\ delivered.result = "resolved"

TargetStatus(eventType) ==
    CASE eventType = "event.submitted" -> "SUBMITTED"
      [] eventType = "event.approved" -> "APPROVED"
      [] eventType = "event.rejected" -> "REJECTED"

Workflow == {"submit", "approve", "reject"}

C24_Inv ==
    /\ (NoneInFlight /\ last.op \in Workflow /\ last.outcome = "ok") =>
          published = <<[eventType |-> DomainEventType(last.op),
                         aggregateId |-> last.id]>>
    /\ \A w \in publishing :
          /\ published = <<>>
          /\ events[w.id] # NoEvent
          /\ events[w.id].status = TargetStatus(DomainEventType(w.op))

C24_Step ==
    /\ (published' # published /\ published' # <<>>) =>
          /\ Len(published') = 1
          /\ events[published'[1].aggregateId] # NoEvent
          /\ events[published'[1].aggregateId].status =
                TargetStatus(published'[1].eventType)
          /\ events' = events
          /\ last'.op \in Workflow
          /\ published'[1] = [eventType |-> DomainEventType(last'.op),
                              aggregateId |-> last'.id]
    /\ (last' # last /\ last'.outcome \in {"NotFound", "Forbidden", "Conflict"}) =>
          /\ published' = published
          /\ delivered' = delivered

\* C24: in the monolith a submit, approve or reject that succeeds has
\* published exactly one domain event, of its own type and for its own event,
\* and the publish step runs when the new status is already in the table; a
\* call that fails with NotFound, Forbidden or Conflict publishes nothing.
C24_EventPerTransition == []C24_Inv /\ [][C24_Step]_vars

C24_Witness ==
    /\ NoneInFlight
    /\ last.op = "reject"
    /\ last.outcome = "ok"
    /\ published = <<[eventType |-> "event.rejected", aggregateId |-> last.id]>>
    /\ events[last.id].status = "REJECTED"
    /\ delivered.handlers = <<"rejects", "resolves">>

(***************************************************************************)
(* Properties of the idempotency store under concurrent calls (Spec)        *)
(***************************************************************************)
\* a call whose operation ran and resolved answers with its own result
C25_Inv ==
    \A r \in Reqs :
        (req[r].opInvoked /\ req[r].reply.kind = "value")
            => req[r].reply = Value(OpResult(r))

\* the keyed call whose operation resolves now leaves its own result as the
\* record of its key, whatever another call stored there in between
C25_Step ==
    \A r \in Reqs :
        (/\ req[r].h = "op"
         /\ req[r].key # NoKey
         /\ req'[r].h = "replied"
         /\ req'[r].reply.kind = "value")
            => cache'[req[r].key] =
                  [key |-> req[r].key, response |-> OpResult(r), timestamp |-> now]

\* C25: two calls with the same unseen key may both find no record and both
\* run their operation; each is answered with its own result, and the one
\* record of the key holds the result of the operation that resolved last.
C25_LastWriterWins == []C25_Inv /\ [][C25_Step]_vars

\* both calls missed the lookup, both got their own result, and the record
\* is the one of r although w had stored before (no time has passed, so the
\* two calls overlapped)
C25_Witness ==
    \E r, w \in Reqs :
        /\ r # w
        /\ req[r].key # NoKey
        /\ req[r].key = req[w].key
        /\ now = 0
        /\ req[r].opInvoked /\ ~req[r].seen.found
        /\ req[w].opInvoked /\ ~req[w].seen.found
        /\ req[r].reply = Value(OpResult(r))
        /\ req[w].reply = Value(OpResult(w))
        /\ cache[req[r].key].response = OpResult(r)

\* C26: at every age of a record, the sweep deletes the record exactly when
\* a lookup of its key treats it as expired (also at an age equal to the
\* retention window).
C26_ExpiryAgrees ==
    \A k \in Keys :
        cache[k] # NoRecord
            => ((cleanupExpired(cache, now)[k] = NoRecord)
                    <=> ~Lookup(cache, k, now).hit)

(***************************************************************************)
(* Properties of SpecKeyed                                                  *)
(***************************************************************************)
\* a handler returns or throws in this step (a write in flight has none)
HandlerReturns == pending = {} /\ last' # last

C27_Step ==
    \A k \in Keys :
        (/\ HandlerReturns
         /\ last'.key = k
         /\ cache[k] # NoRecord
         /\ WithinWindow(cache[k], now))
            => /\ last'.hit
               /\ last'.outcome = "ok"
               /\ last'.data = cache[k].response
               /\ UNCHANGED <<events, pending, cache>>

\* C27: the four keyed operations of the events-service and all callers
\* share one store: while the record under key K is fresh, a keyed call
\* with K on any of create, submit, approve and reject by any caller is
\* answered with the stored result, whichever operation and caller stored
\* it, and none of the call's role, organization, ownership or status
\* checks runs (nothing is thrown, nothing is written).
C27_GlobalKeys == [][C27_Step]_vars

\* a USER of organization 1 got, as the answer to approve, what a create by
\* an ADMIN of organization 2 had stored; approve itself would have thrown
C27_Witness ==
    /\ last # NoCall
    /\ last.hit
    /\ last.op = "approve"
    /\ Role(last.by) = "USER"
    /\ last.data[1] = "create"
    /\ Org(last.data[3]) # Org(last.by)
    /\ KeyedCheck(last.op, events[last.id], last.by) = "Forbidden"

(***************************************************************************)
(* Properties of SpecDecide                                                 *)
(***************************************************************************)
\* the write of the moderation call w completes in this step and w succeeds
DecisionSucceeds(w) ==
    /\ w.op \in {"approve", "reject"}
    /\ pending' = pending \ {w}
    /\ last'.outcome = "ok"

\* C28: of the approve and reject requests that authorized moderators and
\* admins issue concurrently for a submitted event at most one succeeds: no
\* decision succeeds on an event that another decision has already moved out
\* of SUBMITTED, so the status a successful decision sets is never replaced.
C28_OneDecision ==
    [][\A w \in pending :
          DecisionSucceeds(w) => events[w.id].status = "SUBMITTED"]_vars

\* an event has a rejection reason exactly when it is REJECTED
C29_Inv ==
    \A id \in EventIds :
        events[id] # NoEvent
            => ((events[id].rejectionReason # NoReason)
                    <=> events[id].status = "REJECTED")

\* the write of a reject stores the reason of that call, and a step that
\* leaves an event REJECTED leaves its reason alone
C29_Step ==
    /\ \A w \in publishing :
          (w.op = "reject" /\ publishing' = {})
              => events[w.id].rejectionReason = w.reason
    /\ \A w \in pending :
          (w.op = "reject" /\ pending' = pending \ {w} /\ events[w.id] # NoEvent)
              => /\ events'[w.id].status = "REJECTED"
                 /\ events'[w.id].rejectionReason = w.reason
    /\ \A id \in EventIds :
          (events[id] # NoEvent /\ events'[id] # NoEvent
             /\ events[id].status = "REJECTED" /\ events'[id].status = "REJECTED")
              => events'[id].rejectionReason = events[id].rejectionReason

\* C29: in the monolith, after any sequence of create, update, submit,
\* approve and reject whose rejects carry a non-empty reason, an event's
\* rejectionReason is non-null exactly when its status is REJECTED, and is
\* then the reason given to the reject that set that status.
C29_ReasonTracksStatus == []C29_Inv /\ [][C29_Step]_vars

\* a reject has returned and the event carries the reason
C29_Witness ==
    /\ last # NoCall
    /\ last.op = "reject"
    /\ last.outcome = "ok"
    /\ events[last.id] # NoEvent
    /\ events[last.id].status = "REJECTED"
    /\ events[last.id].rejectionReason \in Reasons

(***************************************************************************)
(* The response header on every outcome (SpecGateway)                       *)
(***************************************************************************)
HeaderSet == httpResponse.header \notin {NoCorrelationId, NoHeader, ""}

Outcomes == {"value", "error", "timeout"}

\* C30: once the interceptor has run, the X-Correlation-ID response header
\* is set before the handler sends anything to the backend, so the response
\* carries it whether the backend call succeeded, failed terminally,
\* exhausted its retries or timed out.
C30_HeaderOnEveryOutcome ==
    /\ (gpc = "handler" \/ attempts # <<>>) => HeaderSet
    /\ gpc = "done" =>
          /\ httpResponse.body # NoResult
          /\ attempts[Len(attempts)].how \in Outcomes
          /\ HeaderSet

\* the last attempt of a retried read timed out and the failure response
\* carries the header
C30_Witness ==
    /\ gpc = "done"
    /\ Len(attempts) > 1
    /\ attempts[Len(attempts)].how = "timeout"
    /\ httpResponse.body.kind = "error"
    /\ HeaderSet

(***************************************************************************)
(* Properties of SpecRetry                                                  *)
(***************************************************************************)
\* the classification the specification states: configured code, 503 or 504
SpecRetryable(c, e) == e.code \in c.retryableErrors \/ e.status \in {503, 504}

AllRetryable == \A i \in 1..Len(errors) : SpecRetryable(cfg, errors[i])

Failed == rpc = "done" /\ result.kind = "error"

Succeeded == rpc = "done" /\ result.kind = "value"

\* C4: an attempt that timed out while attempts remain is followed by a
\* backoff delay and another attempt; it does not end the pipeline.
C4_TimeoutRetried ==
    (/\ errors # <<>>
     /\ Last(errors) = TimeoutError
     /\ Len(errors) < cfg.maxAttempts)
        => (~Failed /\ Len(delays) = Len(errors))

C6_StopsOnSuccess ==
    Succeeded =>
        /\ invocations = Len(errors) + 1
        /\ invocations <= cfg.maxAttempts
        /\ result = Value(invocations)
        /\ Len(delays) = Len(errors)
        /\ AllRetryable

C6_Witness ==
    /\ Succeeded
    /\ cfg.maxAttempts = 3
    /\ invocations = 3
    /\ delays = <<1000, 2000>>
    /\ result = Value(3)

\* C7: a first failure that is neither a configured code nor 503/504 ends the
\* pipeline at once: one invocation, no delay, that failure propagated.
C7_FailFast ==
    (errors # <<>> /\ ~SpecRetryable(cfg, errors[1])) =>
        /\ rpc = "done"
        /\ invocations = 1
        /\ delays = <<>>
        /\ result = Failure(errors[1])

C7_Witness ==
    /\ cfg.maxAttempts = 3
    /\ errors = <<BackendError>>
    /\ rpc = "done"
    /\ invocations = 1

\* C8: while attempts remain, the i-th failure is followed by a retry exactly
\* when its code is configured or its status is 503 or 504.
C8_Union ==
    \A i \in 1..Len(errors) :
        i < cfg.maxAttempts =>
            ((Len(delays) >= i) <=> SpecRetryable(cfg, errors[i]))

C8_Witness ==
    /\ cfg.retryableErrors = {}
    /\ Len(errors) >= 2
    /\ errors[1].status = 503
    /\ errors[2].status = 504
    /\ Len(delays) = 2

\* C9: a pipeline that ends in failure propagates the failure of its most
\* recent attempt.
C9_LastFailure ==
    Failed => result = Failure(Last(errors))

C9_Witness ==
    /\ Failed
    /\ Len(errors) >= 2
    /\ errors[1] # Last(errors)
    /\ ~SpecRetryable(cfg, Last(errors))
    /\ result = Failure(Last(errors))

\* C10: every gateway write route is configured with maxAttempts = 1, and with
\* maxAttempts = 1 any failure ends the pipeline after one invocation, with
\* no delay and that failure propagated.
C10_SingleAttempt ==
    /\ route \in WriteRoutes => cfg.maxAttempts = 1
    /\ cfg.maxAttempts = 1 =>
          /\ invocations <= 1
          /\ delays = <<>>
          /\ errors # <<>> =>
                /\ rpc = "done"
                /\ invocations = 1
                /\ result = Failure(errors[1])

C10_Witness ==
    /\ route = "events.create"
    /\ errors = <<ConnRefused>>
    /\ rpc = "done"
    /\ invocations = 1
    /\ delays = <<>>
    /\ result = Failure(ConnRefused)

====
